---- MODULE Spec2Model ----
(***************************************************************************)
(* Interrupt routing table and dispatcher of the arc kernel                *)
(* (kernel/arc/intr/route.c).                                              *)
(*                                                                         *)
(* The routing table is an array of handler chains, one per interrupt      *)
(* vector.  Every entry point of route.c is one action; what a call did is *)
(* kept in `last` (its arguments, its return value, the chain it was       *)
(* called on and the ordered trace of the primitives it called), so that   *)
(* the properties of a call can be stated on the step that performs it.    *)
(***************************************************************************)
EXTENDS Integers, Sequences, FiniteSets, TLC

VARIABLES
  smp_mode,       \* MODE_UP or MODE_SMP, fixed at boot
  ioapic_list,    \* the registry of I/O APICs: a sequence of [irq_base, irqs]
  intr_handlers,  \* the routing table: vector -> sequence of handlers
                  \* (kept for the vectors the calls name: Tracked)
  pic_masked,     \* the 8259 PIC's mask bit of each of its lines
  ioapic_redir,   \* each I/O APIC's redirection entries, by IRQ
  panicked,       \* panic() has halted the system
  last,           \* the last call made: arguments, result and trace
  ic_type,        \* ic.c: the interrupt controller type in use
  ic_last,        \* the last call of ic.c: arguments, result and trace
  rw,             \* intr_route_lock: its writer (0: none) and its readers
  cpu,            \* per CPU: where it is in the call of route.c it is making
  heap,           \* heap.c: the list of heap nodes, from heap_root on
  heap_mapped,    \* the addresses of the node headers mapped into memory
  heap_live,      \* the pointers returned non-null and not yet freed
  heap_last       \* the last call of heap.c: arguments, result and trace

\* the state of route.c's calls, and the state of ic.c
route_vars == <<intr_handlers, pic_masked, ioapic_redir, last>>
ic_vars    == <<ic_type, ic_last>>
mp_vars    == <<rw, cpu>>
heap_vars  == <<heap, heap_mapped, heap_live, heap_last>>

vars == <<smp_mode, ioapic_list, intr_handlers, pic_masked, ioapic_redir,
          panicked, last, ic_vars, mp_vars, heap_vars>>

(***************************************************************************)
(* The vector space (arc/intr/common.h) and the PIC's line count.          *)
(***************************************************************************)
INTERRUPTS == 256
FAULT31    == 31
IRQ0       == 32
IRQ15      == IRQ0 + 15
IRQ23      == IRQ0 + 23
SPURIOUS   == 255
IRQS       == 24
PIC_LINES  == 16

Vectors == 0 .. (INTERRUPTS - 1)

(***************************************************************************)
(* Bounds of the model and the inputs the calls are tried on.              *)
(***************************************************************************)
\* the number of chain entries the heap can hold: malloc fails beyond it
MaxNodes == 3

Handlers  == {1, 2}             \* handler function pointers
Frames    == {1, 2}             \* addresses of saved interrupt states
Attrs     == {0, 1}             \* a tuple's polarity / trigger hints
\* vectors handlers are routed to directly: a fault, IRQ1, IRQ15
RouteSample    == {FAULT31, IRQ0 + 1, IRQ15}
\* vectors that are dispatched
DispatchSample == {FAULT31, IRQ0, IRQ0 + 1, IRQ15, IRQ0 + 16, SPURIOUS}
\* IRQs of the tuples: a PIC line, the last PIC line, the first IRQ that is
\* no PIC line, an IRQ of the second I/O APIC, an IRQ beyond every I/O APIC
\* (49 and 25 share the vector of IRQ 1 in SMP mode)
IrqSample == {1, 15, 16, 25, 49}
\* the registries the system boots with in SMP mode: none, or two I/O APICs
\* covering IRQ 0..15 and IRQ 24..31
Registries ==
  { <<>>,
    << [irq_base |-> 0, irqs |-> 16], [irq_base |-> 24, irqs |-> 8] >> }
\* the vectors a call of the model can name; the chain of every other vector
\* is never touched and stays empty, so the table is kept for these
Tracked ==
  (DispatchSample \cup RouteSample \cup {(irq % IRQS) + IRQ0 : irq \in IrqSample})
    \cap Vectors

(***************************************************************************)
(* Collaborators of route.c: the heap, the kernel list, the PIC and the    *)
(* I/O APIC driver.                                                        *)
(***************************************************************************)
RECURSIVE SumLen(_, _)
SumLen(tbl, S) ==
  IF S = {} THEN 0
  ELSE LET v == CHOOSE x \in S : TRUE IN Len(tbl[v]) + SumLen(tbl, S \ {v})

\* the chain entries that are allocated: one node per entry of a chain
LiveNodes(tbl) == SumLen(tbl, {v \in DOMAIN tbl : tbl[v] # <<>>})

\* what malloc(sizeof(*pair)) can answer: TRUE is a node, FALSE is NULL
MallocOutcomes(tbl) == IF LiveNodes(tbl) < MaxNodes THEN {TRUE, FALSE} ELSE {FALSE}

list_add_tail(list, x) == Append(list, x)

list_remove(list, i) == SubSeq(list, 1, i - 1) \o SubSeq(list, i + 1, Len(list))

pic_unmask(pic, irq) == [pic EXCEPT ![irq] = FALSE]

pic_mask(pic, irq) == [pic EXCEPT ![irq] = TRUE]

ioapic_route(redir, k, tuple, intr) ==
  [redir EXCEPT ![k][tuple.irq] =
     [vector |-> intr, attr |-> tuple.attr, masked |-> FALSE]]

ioapic_mask(redir, k, tuple) == [redir EXCEPT ![k][tuple.irq].masked = TRUE]

\* one step of a call's trace: the primitive called and its arguments
Ev(kind, a, b, c) == <<kind, a, b, c>>

(***************************************************************************)
(* intr_dispatch                                                           *)
(***************************************************************************)
\* the spurious vector acknowledged like any other
AckEvents_spurious(intr) ==
  IF smp_mode = "SMP"
    THEN IF intr > FAULT31
           THEN << Ev("apic_ack", 0, 0, 0) >> ELSE <<>>
    ELSE IF intr >= IRQ0 /\ intr <= IRQ15
           THEN << Ev("pic_ack", intr - IRQ0, 0, 0) >> ELSE <<>>

\* route.c 42-51: which controller, if any, is acknowledged
AckEvents(intr) ==
  IF smp_mode = "SMP"
    THEN IF intr > FAULT31 /\ intr # SPURIOUS
           THEN << Ev("apic_ack", 0, 0, 0) >> ELSE <<>>
    ELSE IF intr >= IRQ0 /\ intr <= IRQ15
           THEN << Ev("pic_ack", intr - IRQ0, 0, 0) >> ELSE <<>>

\* the check left out: an empty chain is walked like any other
NoHandler_never(handler_list) == FALSE

\* route.c 56: the check that sends dispatch to panic
NoHandler(handler_list) == Len(handler_list) = 0

\* the walk stopping one node early: the last pair's handler is not called
CallHandlers_short(handler_list, state, i) ==
  [k \in 1 .. (Len(handler_list) - 1) |->
     Ev("handler", handler_list[k], state.id, state.frame)]

\* route.c 60-66: list_for_each over the chain, calling each pair's handler
RECURSIVE CallHandlers(_, _, _)
CallHandlers(handler_list, state, i) ==
  IF i > Len(handler_list) THEN <<>>
  ELSE << Ev("handler", handler_list[i], state.id, state.frame) >>
         \o CallHandlers(handler_list, state, i + 1)

DispatchTrace(state) ==
  LET handler_list == intr_handlers[state.id] IN
    AckEvents(state.id) \o << Ev("rw_rlock", 0, 0, 0) >> \o
    (IF NoHandler(handler_list)
       THEN << Ev("panic", state.id, 0, 0) >>
       ELSE CallHandlers(handler_list, state, 1) \o << Ev("rw_runlock", 0, 0, 0) >>)

\* no vector: the call resolved its IRQ to none
NoVector == 0 - 1

ChainOf(intr) == IF intr = NoVector THEN <<>> ELSE intr_handlers[intr]

NoCall == [op |-> "none", intr |-> NoVector, irq |-> 0, attr |-> 0, handler |-> 0,
           frame |-> 0, alloc |-> FALSE, ret |-> "void", pre |-> <<>>,
           rt |-> <<>>, events |-> <<>>]

intr_dispatch ==
  \E id \in DispatchSample, frame \in Frames :
    LET state == [id |-> id, frame |-> frame] IN
      /\ ~panicked
      /\ panicked' = NoHandler(intr_handlers[id])
      /\ last' = [NoCall EXCEPT !.op = "intr_dispatch", !.intr = id,
                                !.frame = frame,
                                !.ret = IF NoHandler(intr_handlers[id])
                                          THEN "panic" ELSE "void",
                                !.pre = intr_handlers[id],
                                !.events = DispatchTrace(state)]
      /\ UNCHANGED <<heap_vars, smp_mode, ioapic_list, intr_handlers, pic_masked,
                     ioapic_redir>>
      /\ UNCHANGED <<ic_vars, mp_vars>>

(***************************************************************************)
(* _intr_route_intr, _intr_unroute_intr and their locked entry points      *)
(***************************************************************************)
\* the pair linked at the head of the list instead of its tail
_intr_route_intr_head(tbl, intr, handler, pair) ==
  IF ~pair
    THEN [ok |-> FALSE, tbl |-> tbl, events |-> <<>>]
    ELSE [ok |-> TRUE,
          tbl |-> [tbl EXCEPT ![intr] = <<handler>> \o @],
          events |-> << Ev("list_add_tail", intr, handler, 0) >>]

\* route.c 70-83; pair is malloc's answer.  The result: ok and the new table
_intr_route_intr(tbl, intr, handler, pair) ==
  IF ~pair
    THEN [ok |-> FALSE, tbl |-> tbl, events |-> <<>>]
    ELSE [ok |-> TRUE,
          tbl |-> [tbl EXCEPT ![intr] = list_add_tail(@, handler)],
          events |-> << Ev("list_add_tail", intr, handler, 0) >>]

\* the walk going on after a match: the last matching pair is found
FindPair_last(list, handler, i) ==
  LET S == {k \in i .. Len(list) : list[k] = handler}
  IN  IF S = {} THEN 0 ELSE CHOOSE k \in S : \A j \in S : j <= k

\* route.c 88-91: the index of the first pair whose handler matches, or 0
RECURSIVE FindPair(_, _, _)
FindPair(list, handler, i) ==
  IF i > Len(list) THEN 0
  ELSE IF list[i] = handler THEN i
  ELSE FindPair(list, handler, i + 1)

\* the return after the unlink left out: every matching pair is removed
_intr_unroute_intr_all(tbl, intr, handler) ==
  IF \A i \in 1 .. Len(tbl[intr]) : tbl[intr][i] # handler
    THEN [tbl |-> tbl, events |-> <<>>]
    ELSE [tbl |-> [tbl EXCEPT ![intr] = SelectSeq(@, LAMBDA x : x # handler)],
          events |-> << Ev("list_remove", intr, handler, 0) >>]

\* route.c 85-101
_intr_unroute_intr(tbl, intr, handler) ==
  LET i == FindPair(tbl[intr], handler, 1) IN
    IF i = 0
      THEN [tbl |-> tbl, events |-> <<>>]
      ELSE [tbl |-> [tbl EXCEPT ![intr] = list_remove(@, i)],
            events |-> << Ev("list_remove", intr, handler, 0) >>]

LockTrace(events) ==
  << Ev("intr_lock", 0, 0, 0), Ev("rw_wlock", 0, 0, 0) >> \o events \o
  << Ev("rw_wunlock", 0, 0, 0), Ev("intr_unlock", 0, 0, 0) >>

Bool(b) == IF b THEN "true" ELSE "false"

\* route.c 103-111
intr_route_intr ==
  \E pair \in MallocOutcomes(intr_handlers),
     intr \in RouteSample, handler \in Handlers :
    LET r == _intr_route_intr(intr_handlers, intr, handler, pair) IN
      /\ ~panicked
      /\ intr_handlers' = r.tbl
      /\ last' = [NoCall EXCEPT !.op = "intr_route_intr", !.intr = intr,
                                !.handler = handler, !.alloc = pair,
                                !.ret = Bool(r.ok),
                                !.pre = intr_handlers[intr],
                                !.events = LockTrace(r.events)]
      /\ UNCHANGED <<heap_vars, smp_mode, ioapic_list, pic_masked, ioapic_redir, panicked>>
      /\ UNCHANGED <<ic_vars, mp_vars>>

\* the chain before the successful intr_route_intr(intr, handler) that was the
\* call just before this one, if that is what the call before was
RoundTrip(intr, handler) ==
  IF /\ last.op = "intr_route_intr" /\ last.ret = "true"
     /\ last.intr = intr /\ last.handler = handler
    THEN << last.pre >> ELSE <<>>

\* route.c 113-120
intr_unroute_intr ==
  \E intr \in RouteSample, handler \in Handlers :
    LET r == _intr_unroute_intr(intr_handlers, intr, handler) IN
      /\ ~panicked
      /\ intr_handlers' = r.tbl
      /\ last' = [NoCall EXCEPT !.op = "intr_unroute_intr", !.intr = intr,
                                !.handler = handler,
                                !.pre = intr_handlers[intr],
                                !.rt = RoundTrip(intr, handler),
                                !.events = LockTrace(r.events)]
      /\ UNCHANGED <<heap_vars, smp_mode, ioapic_list, pic_masked, ioapic_redir, panicked>>
      /\ UNCHANGED <<ic_vars, mp_vars>>

(***************************************************************************)
(* intr_route_irq and intr_unroute_irq                                     *)
(***************************************************************************)
\* the range check off by one: IRQ 16 taken for a PIC line
PicRoutable_incl(irq) == irq <= PIC_LINES

\* route.c 133, 196: only IRQ0-15 can be routed through the PIC
PicRoutable(irq) == irq < PIC_LINES

\* route.c 161-163, 220-222: whether the IRQ belongs to this I/O APIC
IrqBelongs(apic, irq) ==
  LET irq_first == apic.irq_base
      irq_last  == apic.irq_base + apic.irqs - 1
  IN  irq >= irq_first /\ irq < irq_last

\* route.c 156-176: the first I/O APIC of the list the IRQ belongs to, or 0
RECURSIVE FindIoapic(_, _, _)
FindIoapic(list, irq, k) ==
  IF k > Len(list) THEN 0
  ELSE IF IrqBelongs(list[k], irq) THEN k
  ELSE FindIoapic(list, irq, k + 1)

\* route.c 153, 212
SmpVector(irq) == (irq % IRQS) + IRQ0

\* route.c 122-183.  The result: the return value, the new table, PIC masks
\* and redirection entries, and the primitives called under the lock
RouteIrq(tuple, handler, pair) ==
  LET irq  == tuple.irq
      none == [ok |-> FALSE, tbl |-> intr_handlers, pic |-> pic_masked,
               redir |-> ioapic_redir, events |-> <<>>, intr |-> NoVector]
  IN
  IF smp_mode = "UP"
    THEN IF PicRoutable(irq)
           THEN LET intr == irq + IRQ0
                    r == _intr_route_intr(intr_handlers, intr, handler, pair)
                IN [ok |-> r.ok, tbl |-> r.tbl,
                    pic |-> pic_unmask(pic_masked, irq),
                    redir |-> ioapic_redir,
                    events |-> r.events \o << Ev("pic_unmask", irq, 0, 0) >>,
                    intr |-> intr]
           ELSE none
    ELSE LET intr == SmpVector(irq)
             k == FindIoapic(ioapic_list, irq, 1)
         IN IF k # 0
              THEN LET r == _intr_route_intr(intr_handlers, intr, handler, pair)
                   IN [ok |-> r.ok, tbl |-> r.tbl, pic |-> pic_masked,
                       redir |-> ioapic_route(ioapic_redir, k, tuple, intr),
                       events |-> r.events \o
                                  << Ev("ioapic_route", k, irq, intr) >>,
                       intr |-> intr]
              ELSE [none EXCEPT !.intr = intr]

intr_route_irq ==
  \E pair \in MallocOutcomes(intr_handlers),
     irq \in IrqSample, attr \in Attrs, handler \in Handlers :
    LET tuple == [irq |-> irq, attr |-> attr]
        r == RouteIrq(tuple, handler, pair)
    IN
      /\ ~panicked
      /\ intr_handlers' = r.tbl
      /\ pic_masked' = r.pic
      /\ ioapic_redir' = r.redir
      /\ last' = [NoCall EXCEPT !.op = "intr_route_irq", !.intr = r.intr,
                                !.irq = irq, !.attr = attr,
                                !.handler = handler, !.alloc = pair,
                                !.ret = Bool(r.ok),
                                !.pre = ChainOf(r.intr),
                                !.events = LockTrace(r.events)]
      /\ UNCHANGED <<heap_vars, smp_mode, ioapic_list, panicked>>
      /\ UNCHANGED <<ic_vars, mp_vars>>

\* the line masked whether or not other handlers remain
NoLongerUsed_always(tbl, intr) == TRUE

\* route.c 204: the PIC line is masked if the vector is no longer used
NoLongerUsed(tbl, intr) == Len(tbl[intr]) = 0

\* route.c 215-227: every I/O APIC of the list the IRQ belongs to is masked
RECURSIVE MaskIoapics(_, _, _)
MaskIoapics(redir, tuple, k) ==
  IF k > Len(ioapic_list) THEN [redir |-> redir, events |-> <<>>]
  ELSE IF IrqBelongs(ioapic_list[k], tuple.irq)
         THEN LET rest == MaskIoapics(ioapic_mask(redir, k, tuple), tuple, k + 1)
              IN [redir |-> rest.redir,
                  events |-> << Ev("ioapic_mask", k, tuple.irq, 0) >>
                             \o rest.events]
         ELSE MaskIoapics(redir, tuple, k + 1)

\* the chain before the successful intr_route_irq(tuple, handler) that was the
\* call just before this one, if that is what the call before was
RoundTripIrq(tuple, handler) ==
  IF /\ last.op = "intr_route_irq" /\ last.ret = "true"
     /\ last.irq = tuple.irq /\ last.attr = tuple.attr
     /\ last.handler = handler
    THEN << last.pre >> ELSE <<>>

\* route.c 185-236
UnrouteIrq(tuple, handler) ==
  LET irq  == tuple.irq
      none == [tbl |-> intr_handlers, pic |-> pic_masked,
               redir |-> ioapic_redir, events |-> <<>>, intr |-> NoVector]
  IN
  IF smp_mode = "UP"
    THEN IF PicRoutable(irq)
           THEN LET intr == irq + IRQ0
                    r == _intr_unroute_intr(intr_handlers, intr, handler)
                IN IF NoLongerUsed(r.tbl, intr)
                     THEN [tbl |-> r.tbl, pic |-> pic_mask(pic_masked, irq),
                           redir |-> ioapic_redir,
                           events |-> r.events \o << Ev("pic_mask", irq, 0, 0) >>,
                           intr |-> intr]
                     ELSE [tbl |-> r.tbl, pic |-> pic_masked,
                           redir |-> ioapic_redir, events |-> r.events,
                           intr |-> intr]
           ELSE none
    ELSE LET intr == SmpVector(irq)
             m == MaskIoapics(ioapic_redir, tuple, 1)
             r == _intr_unroute_intr(intr_handlers, intr, handler)
         IN [tbl |-> r.tbl, pic |-> pic_masked, redir |-> m.redir,
             events |-> m.events \o r.events, intr |-> intr]

intr_unroute_irq ==
  \E irq \in IrqSample, attr \in Attrs, handler \in Handlers :
    LET tuple == [irq |-> irq, attr |-> attr]
        r == UnrouteIrq(tuple, handler)
    IN
      /\ ~panicked
      /\ intr_handlers' = r.tbl
      /\ pic_masked' = r.pic
      /\ ioapic_redir' = r.redir
      /\ last' = [NoCall EXCEPT !.op = "intr_unroute_irq", !.intr = r.intr,
                                !.irq = irq, !.attr = attr,
                                !.handler = handler,
                                !.pre = ChainOf(r.intr),
                                !.rt = RoundTripIrq(tuple, handler),
                                !.events = LockTrace(r.events)]
      /\ UNCHANGED <<heap_vars, smp_mode, ioapic_list, panicked>>
      /\ UNCHANGED <<ic_vars, mp_vars>>

(***************************************************************************)
(* ic.c: the interrupt controller in use (kernel/arc/intr/ic.c)            *)
(***************************************************************************)
\* the types ic_bsp_init accepts; any other value is "OTHER"
IcTypes == {"PIC", "LAPIC", "LX2APIC"}
\* the types ic_bsp_init is called with, IC_TYPE_NONE among them
TypeSample == IcTypes \cup {"NONE", "OTHER"}
\* the base address passed with IC_TYPE_LAPIC
BaseSample == {1, 2}
\* the vectors ic_ack is called with: around IRQ0, IRQ15 and IRQ23
AckSample == {FAULT31, IRQ0, IRQ15, IRQ15 + 1, IRQ23, IRQ23 + 1, SPURIOUS}
\* the CPUs an IPI is sent to, and the trampoline pages of a startup IPI
CpuIdSample == {0, 1, 2, 3}
TrampolineSample == {1, 8}

NoIcCall == [op |-> "none", was |-> "NONE", type |-> "NONE", id |-> 0,
             arg |-> 0, ret |-> "void", events |-> <<>>]

IcPanic == << Ev("panic", 0, 0, 0) >>

\* the default case taken for a call that is no call of a controller
IcBspInit_anytype(type, base) ==
  CASE type = "PIC"   -> [panic |-> FALSE, events |-> << Ev("pic_init", 0, 0, 0) >>]
    [] type = "LAPIC" -> [panic |-> FALSE,
                          events |-> << Ev("lapic_mmio_init", base, 0, 0) >>]
    [] OTHER          -> [panic |-> FALSE, events |-> <<>>]

\* ic.c 31-47: the switch of ic_bsp_init
IcBspInit(type, base) ==
  CASE type = "PIC"     -> [panic |-> FALSE,
                            events |-> << Ev("pic_init", 0, 0, 0) >>]
    [] type = "LAPIC"   -> [panic |-> FALSE,
                            events |-> << Ev("lapic_mmio_init", base, 0, 0) >>]
    [] type = "LX2APIC" -> [panic |-> FALSE, events |-> <<>>]
    [] OTHER            -> [panic |-> TRUE, events |-> IcPanic]

\* ic.c 26-51; panic does not return, so line 49 is reached only without it
ic_bsp_init ==
  \E type \in TypeSample, base \in BaseSample :
    LET r == IcBspInit(type, base) IN
      /\ ~panicked
      /\ panicked' = r.panic
      /\ ic_type' = IF r.panic THEN ic_type ELSE type
      /\ ic_last' = [NoIcCall EXCEPT !.op = "ic_bsp_init", !.was = ic_type,
                                     !.type = type, !.arg = base,
                                     !.ret = IF r.panic THEN "panic" ELSE "void",
                                     !.events = r.events]
      /\ UNCHANGED <<heap_vars, smp_mode, ioapic_list, route_vars, mp_vars>>

\* ic.c 55-68: the switch of ic_ap_init
IcApInit(type) ==
  CASE type = "NONE"    -> [panic |-> TRUE, events |-> IcPanic]
    [] type = "LAPIC"   -> [panic |-> FALSE,
                            events |-> << Ev("lapic_init", 0, 0, 0) >>]
    [] type = "LX2APIC" -> [panic |-> FALSE,
                            events |-> << Ev("lx2apic_init", 0, 0, 0) >>]
    [] OTHER            -> [panic |-> FALSE, events |-> <<>>]

\* ic.c 53-69
ic_ap_init ==
  LET r == IcApInit(ic_type) IN
    /\ ~panicked
    /\ panicked' = r.panic
    /\ ic_last' = [NoIcCall EXCEPT !.op = "ic_ap_init", !.was = ic_type,
                                   !.ret = IF r.panic THEN "panic" ELSE "void",
                                   !.events = r.events]
    /\ UNCHANGED <<heap_vars, smp_mode, ioapic_list, route_vars, mp_vars, ic_type>>

\* the PIC's range check taken from the APIC cases
IcAck_wide(type, id) ==
  CASE type = "NONE"    -> [panic |-> TRUE, events |-> IcPanic]
    [] type = "PIC"     -> [panic |-> FALSE,
                            events |-> IF id >= IRQ0 /\ id <= IRQ23
                                         THEN << Ev("pic_ack", id, 0, 0) >>
                                         ELSE <<>>]
    [] type = "LAPIC"   -> [panic |-> FALSE,
                            events |-> IF id >= IRQ0 /\ id <= IRQ23
                                         THEN << Ev("lapic_ack", 0, 0, 0) >>
                                         ELSE <<>>]
    [] type = "LX2APIC" -> [panic |-> FALSE,
                            events |-> IF id >= IRQ0 /\ id <= IRQ23
                                         THEN << Ev("lx2apic_ack", 0, 0, 0) >>
                                         ELSE <<>>]
    [] OTHER            -> [panic |-> FALSE, events |-> <<>>]

\* ic.c 73-93: the switch of ic_ack
IcAck(type, id) ==
  CASE type = "NONE"    -> [panic |-> TRUE, events |-> IcPanic]
    [] type = "PIC"     -> [panic |-> FALSE,
                            events |-> IF id >= IRQ0 /\ id <= IRQ15
                                         THEN << Ev("pic_ack", id, 0, 0) >>
                                         ELSE <<>>]
    [] type = "LAPIC"   -> [panic |-> FALSE,
                            events |-> IF id >= IRQ0 /\ id <= IRQ23
                                         THEN << Ev("lapic_ack", 0, 0, 0) >>
                                         ELSE <<>>]
    [] type = "LX2APIC" -> [panic |-> FALSE,
                            events |-> IF id >= IRQ0 /\ id <= IRQ23
                                         THEN << Ev("lx2apic_ack", 0, 0, 0) >>
                                         ELSE <<>>]
    [] OTHER            -> [panic |-> FALSE, events |-> <<>>]

\* ic.c 71-94
ic_ack ==
  \E id \in AckSample :
    LET r == IcAck(ic_type, id) IN
      /\ ~panicked
      /\ panicked' = r.panic
      /\ ic_last' = [NoIcCall EXCEPT !.op = "ic_ack", !.was = ic_type,
                                     !.id = id,
                                     !.ret = IF r.panic THEN "panic" ELSE "void",
                                     !.events = r.events]
      /\ UNCHANGED <<heap_vars, smp_mode, ioapic_list, route_vars, mp_vars, ic_type>>

\* the case of the PIC left out: the IPI is sent as if a local APIC were there
IcIpi_nopic(type, id, mode, payload) ==
  CASE type = "NONE"    -> [panic |-> TRUE, events |-> IcPanic]
    [] type = "LX2APIC" -> [panic |-> FALSE,
                            events |-> << Ev("lx2apic_ipi", id, mode, payload) >>]
    [] OTHER            -> [panic |-> FALSE,
                            events |-> << Ev("lapic_ipi", id, mode, payload) >>]

\* ic.c 98-115 and 120-137: the switch of ic_ipi_init and of ic_ipi_startup;
\* mode is the delivery mode (0x05 INIT, 0x06 startup)
IcIpi(type, id, mode, payload) ==
  CASE type = "NONE"    -> [panic |-> TRUE, events |-> IcPanic]
    [] type = "PIC"     -> [panic |-> TRUE, events |-> IcPanic]
    [] type = "LAPIC"   -> [panic |-> FALSE,
                            events |-> << Ev("lapic_ipi", id, mode, payload) >>]
    [] type = "LX2APIC" -> [panic |-> FALSE,
                            events |-> << Ev("lx2apic_ipi", id, mode, payload) >>]
    [] OTHER            -> [panic |-> FALSE, events |-> <<>>]

\* ic.c 96-116
ic_ipi_init ==
  \E id \in CpuIdSample :
    LET r == IcIpi(ic_type, id, 5, 0) IN
      /\ ~panicked
      /\ panicked' = r.panic
      /\ ic_last' = [NoIcCall EXCEPT !.op = "ic_ipi_init", !.was = ic_type,
                                     !.id = id,
                                     !.ret = IF r.panic THEN "panic" ELSE "void",
                                     !.events = r.events]
      /\ UNCHANGED <<heap_vars, smp_mode, ioapic_list, route_vars, mp_vars, ic_type>>

\* ic.c 118-138
ic_ipi_startup ==
  \E id \in CpuIdSample, trampoline_addr \in TrampolineSample :
    LET r == IcIpi(ic_type, id, 6, trampoline_addr) IN
      /\ ~panicked
      /\ panicked' = r.panic
      /\ ic_last' = [NoIcCall EXCEPT !.op = "ic_ipi_startup", !.was = ic_type,
                                     !.id = id, !.arg = trampoline_addr,
                                     !.ret = IF r.panic THEN "panic" ELSE "void",
                                     !.events = r.events]
      /\ UNCHANGED <<heap_vars, smp_mode, ioapic_list, route_vars, mp_vars, ic_type>>

(***************************************************************************)
(* The calls of route.c made by several CPUs at once: each call is cut at  *)
(* its lock operations, and what it does between two of them is one step.  *)
(***************************************************************************)
Cpus == {1, 2}

\* MODE_UP is one CPU
ActiveCpus == IF smp_mode = "SMP" THEN Cpus ELSE {1}

\* the vectors dispatched and the mutations called while CPUs run together
ConcVectors == {IRQ0 + 1, IRQ15}
VectorCalls ==
  [op : {"intr_route_intr", "intr_unroute_intr"}, intr : {IRQ0 + 1},
   irq : {0}, handler : Handlers]
  \cup
  [op : {"intr_route_intr", "intr_unroute_intr"}, intr : {IRQ15},
   irq : {0}, handler : {1}]
IrqCalls ==
  [op : {"intr_route_irq", "intr_unroute_irq"}, intr : {NoVector},
   irq : {1, 16}, handler : {1}]
ConcCalls == VectorCalls \cup IrqCalls

\* the mutations a handler calls
NestedCalls ==
  {call \in ConcCalls : call.handler = 1 /\ call.intr # IRQ15 /\ call.irq # 16}

NoMutation == [op |-> "none", intr |-> NoVector, irq |-> 0, handler |-> 0]

\* a CPU that is in no call of route.c: its interrupts are enabled
IdleCpu == [pc |-> "idle", intr |-> NoVector, i |-> 0, snap |-> <<>>,
            walked |-> <<>>, call |-> NoMutation, ret |-> "void",
            off |-> FALSE, nested |-> FALSE]

\* the reader-writer lock: read is granted while no writer holds it, write
\* while nobody holds it
rw_rlock_free(lock) == lock.writer = 0
rw_wlock_free(lock) == lock.writer = 0 /\ lock.readers = {}
rw_rlock(lock, c)   == [lock EXCEPT !.readers = @ \cup {c}]
rw_runlock(lock, c) == [lock EXCEPT !.readers = @ \ {c}]
rw_wlock(lock, c)   == [lock EXCEPT !.writer = c]
rw_wunlock(lock, c) == [lock EXCEPT !.writer = 0]

\* intr_lock disables the interrupts of the CPU, intr_unlock enables them
intr_lock(off)   == TRUE
intr_unlock(off) == FALSE

\* the walk made without the read lock
DispatchLock_none(lock, c) == lock

\* route.c 54: intr_dispatch takes the lock for read
DispatchLock(lock, c) == rw_rlock(lock, c)

\* route.c 67
DispatchUnlock(lock, c) == rw_runlock(lock, c)

\* interrupts left enabled
IntrLock_none(off) == off

\* route.c 105, 115, 125, 188: the mutation starts with intr_lock
IntrLock(off) == intr_lock(off)

\* route.c 109, 119, 143, 173, 181, 235: it ends with intr_unlock
IntrUnlock(off) == intr_unlock(off)

\* the table changed without waiting for the write lock
MutationMayEnter_nowait(lock) == TRUE

\* route.c 106, 116, 126, 189: the mutation waits for the write lock
MutationMayEnter(lock) == rw_wlock_free(lock)

\* the write lock never given back
MutationUnlock_none(lock, c) == lock

\* route.c 108, 118, 142, 172, 180, 234
MutationUnlock(lock, c) == rw_wunlock(lock, c)

\* route.c 107, 117, 129-177, 192-231: what the call does under the write lock
MutationBody(call, pair) ==
  CASE call.op = "intr_route_intr" ->
         LET r == _intr_route_intr(intr_handlers, call.intr, call.handler, pair)
         IN [tbl |-> r.tbl, pic |-> pic_masked, redir |-> ioapic_redir,
             ret |-> Bool(r.ok)]
    [] call.op = "intr_unroute_intr" ->
         LET r == _intr_unroute_intr(intr_handlers, call.intr, call.handler)
         IN [tbl |-> r.tbl, pic |-> pic_masked, redir |-> ioapic_redir,
             ret |-> "void"]
    [] call.op = "intr_route_irq" ->
         LET r == RouteIrq([irq |-> call.irq, attr |-> 0], call.handler, pair)
         IN [tbl |-> r.tbl, pic |-> r.pic, redir |-> r.redir,
             ret |-> Bool(r.ok)]
    [] OTHER ->
         LET r == UnrouteIrq([irq |-> call.irq, attr |-> 0], call.handler)
         IN [tbl |-> r.tbl, pic |-> r.pic, redir |-> r.redir, ret |-> "void"]

\* route.c 38-51: an interrupt is delivered to a CPU whose interrupts are
\* enabled; the dispatch is then to take the read lock
dispatch_enter(c) ==
  \E id \in ConcVectors :
    /\ ~panicked
    /\ c \in ActiveCpus
    /\ cpu[c].pc = "idle" /\ ~cpu[c].off
    /\ cpu' = [cpu EXCEPT ![c] = [IdleCpu EXCEPT !.pc = "rlock", !.intr = id]]
    /\ UNCHANGED <<heap_vars, smp_mode, ioapic_list, route_vars, panicked, ic_vars, rw>>

\* route.c 54-57: the read lock is granted; an empty chain is a panic
dispatch_rlock(c) ==
  LET handler_list == intr_handlers[cpu[c].intr] IN
    /\ ~panicked
    /\ c \in ActiveCpus
    /\ cpu[c].pc = "rlock"
    /\ rw_rlock_free(rw)
    /\ rw' = DispatchLock(rw, c)
    /\ panicked' = NoHandler(handler_list)
    /\ cpu' = [cpu EXCEPT ![c].pc = IF NoHandler(handler_list)
                                      THEN "panic" ELSE "walk",
                          ![c].i = 1,
                          ![c].snap = handler_list]
    /\ UNCHANGED <<heap_vars, smp_mode, ioapic_list, route_vars, ic_vars>>

\* route.c 60-66: the next pair's handler is called and returns
dispatch_call(c) ==
  LET handler_list == intr_handlers[cpu[c].intr] IN
    /\ ~panicked
    /\ c \in ActiveCpus
    /\ cpu[c].pc = "walk"
    /\ cpu[c].i <= Len(handler_list)
    /\ cpu' = [cpu EXCEPT ![c].walked = Append(@, handler_list[cpu[c].i]),
                          ![c].i = @ + 1]
    /\ UNCHANGED <<heap_vars, smp_mode, ioapic_list, route_vars, panicked, ic_vars, rw>>

\* route.c 65 calling 103-236: the handler called calls one of the four
\* mutations, which starts with intr_lock and is then to take the write lock
dispatch_call_mutation(c) ==
  \E call \in NestedCalls :
    LET handler_list == intr_handlers[cpu[c].intr] IN
      /\ ~panicked
      /\ c \in ActiveCpus
      /\ cpu[c].pc = "walk"
      /\ cpu[c].i <= Len(handler_list)
      /\ cpu' = [cpu EXCEPT ![c].walked = Append(@, handler_list[cpu[c].i]),
                            ![c].pc = "wlock",
                            ![c].call = call,
                            ![c].nested = TRUE,
                            ![c].off = IntrLock(@)]
      /\ UNCHANGED <<heap_vars, smp_mode, ioapic_list, route_vars, panicked, ic_vars, rw>>

\* route.c 67-68: the walk is over, the read lock is released
dispatch_runlock(c) ==
  /\ ~panicked
  /\ c \in ActiveCpus
  /\ cpu[c].pc = "walk"
  /\ cpu[c].i > Len(intr_handlers[cpu[c].intr])
  /\ rw' = DispatchUnlock(rw, c)
  /\ cpu' = [cpu EXCEPT ![c] = IdleCpu]
  /\ UNCHANGED <<heap_vars, smp_mode, ioapic_list, route_vars, panicked, ic_vars>>

\* route.c 105, 115: intr_route_intr or intr_unroute_intr is called; it
\* disables interrupts and is then to take the write lock
vector_call_enter(c) ==
  \E call \in VectorCalls :
    /\ ~panicked
    /\ c \in ActiveCpus
    /\ cpu[c].pc = "idle"
    /\ cpu' = [cpu EXCEPT ![c] = [IdleCpu EXCEPT !.pc = "wlock", !.call = call,
                                                 !.off = IntrLock(@)]]
    /\ UNCHANGED <<heap_vars, smp_mode, ioapic_list, route_vars, panicked, ic_vars, rw>>

\* route.c 125, 188: the same for intr_route_irq and intr_unroute_irq
irq_call_enter(c) ==
  \E call \in IrqCalls :
    /\ ~panicked
    /\ c \in ActiveCpus
    /\ cpu[c].pc = "idle"
    /\ cpu' = [cpu EXCEPT ![c] = [IdleCpu EXCEPT !.pc = "wlock", !.call = call,
                                                 !.off = IntrLock(@)]]
    /\ UNCHANGED <<heap_vars, smp_mode, ioapic_list, route_vars, panicked, ic_vars, rw>>

\* route.c 106-107, 116-117, 126-177, 189-231: the write lock is granted and
\* the table is changed under it
mutation_wlock(c) ==
  \E pair \in MallocOutcomes(intr_handlers) :
    LET r == MutationBody(cpu[c].call, pair) IN
      /\ ~panicked
      /\ c \in ActiveCpus
      /\ cpu[c].pc = "wlock"
      /\ MutationMayEnter(rw)
      /\ rw' = rw_wlock(rw, c)
      /\ intr_handlers' = r.tbl
      /\ pic_masked' = r.pic
      /\ ioapic_redir' = r.redir
      /\ cpu' = [cpu EXCEPT ![c].pc = "wunlock", ![c].ret = r.ret]
      /\ UNCHANGED <<heap_vars, smp_mode, ioapic_list, last, panicked, ic_vars>>

\* route.c 108, 118, 142, 172, 180, 234
mutation_wunlock(c) ==
  /\ ~panicked
  /\ c \in ActiveCpus
  /\ cpu[c].pc = "wunlock"
  /\ rw' = MutationUnlock(rw, c)
  /\ cpu' = [cpu EXCEPT ![c].pc = "intr_unlock"]
  /\ UNCHANGED <<heap_vars, smp_mode, ioapic_list, route_vars, panicked, ic_vars>>

\* route.c 109-110, 119, 143-144, 173-174, 181-182, 235: interrupts are
\* enabled again and the call returns, to the handler that made it if one did
mutation_intr_unlock(c) ==
  /\ ~panicked
  /\ c \in ActiveCpus
  /\ cpu[c].pc = "intr_unlock"
  /\ cpu' = [cpu EXCEPT ![c] =
               IF cpu[c].nested
                 THEN [cpu[c] EXCEPT !.pc = "walk", !.i = @ + 1,
                                     !.call = NoMutation, !.ret = "void",
                                     !.nested = FALSE, !.off = IntrUnlock(@)]
                 ELSE IdleCpu]
  /\ UNCHANGED <<heap_vars, smp_mode, ioapic_list, route_vars, panicked, ic_vars, rw>>

(***************************************************************************)
(* heap.c: the kernel heap (kernel/arc/mm/heap.c)                          *)
(***************************************************************************)
FRAME_SIZE == 4096

\* the frames of the heap after the root node's header
HeapFrames == 5

\* the live pointers the callers hold at most
MaxLive == 3

\* heap.c 57, 60: the first and the last address of the heap.  The addresses
\* are offsets: VM_HIGHER_HALF is FRAME_SIZE here
heap_start == FRAME_SIZE
heap_end   == heap_start + FRAME_SIZE + HeapFrames * FRAME_SIZE - 1

NullPtr == 0

\* the sizes asked for, in bytes
SizeSample == {1, FRAME_SIZE, FRAME_SIZE + 1, 3 * FRAME_SIZE}

\* heap.c 195
PAGE_ALIGN(size) == ((size + FRAME_SIZE - 1) \div FRAME_SIZE) * FRAME_SIZE

\* heap.c 72-82: the root node after heap_init; addr is the node's own address
heap_root == [addr |-> heap_start, state |-> "FREE",
              start |-> heap_start + FRAME_SIZE, end |-> heap_end]

NoHeapCall == [op |-> "none", size |-> 0, ptr |-> NullPtr, ret |-> NullPtr,
               fault |-> FALSE, events |-> <<>>]

\* the list without its k-th node
Unlink(nodes, k) ==
  [j \in 1 .. (Len(nodes) - 1) |-> IF j < k THEN nodes[j] ELSE nodes[j + 1]]

\* the list with node n linked in after its k-th node
LinkAfter(nodes, k, n) ==
  [j \in 1 .. (Len(nodes) + 1) |->
     IF j <= k THEN nodes[j] ELSE IF j = k + 1 THEN n ELSE nodes[j - 1]]

\* a header that is read or written while it is not mapped: a page fault
Unmapped(nodes, mapped, touched) ==
  \E j \in touched : j \in 1 .. Len(nodes) /\ nodes[j].addr \notin mapped

\* heap.c 88-97: the first free node of at least the size, from the k-th on;
\* 0 if there is none, NoVector if the walk reads an unmapped header
RECURSIVE FindFit(_, _, _, _)
FindFit(nodes, mapped, size, k) ==
  IF k > Len(nodes) THEN 0
  ELSE IF nodes[k].addr \notin mapped THEN NoVector
  ELSE IF nodes[k].state = "FREE" /\ nodes[k].end - nodes[k].start + 1 >= size
         THEN k
  ELSE FindFit(nodes, mapped, size, k + 1)

\* heap.c 99-131: whether the node found is split
Splits(node, size, phy, map_ok) ==
  /\ (node.end - node.start + 1) - size >= FRAME_SIZE * 2
  /\ phy
  /\ map_ok

\* heap.c 85-141.  phy is pmm_alloc's answer, map_ok that of vmm_map
find_node(nodes, mapped, size, phy, map_ok) ==
  LET k == FindFit(nodes, mapped, size, 1) IN
  IF k = NoVector
    THEN [k |-> 0, fault |-> TRUE, nodes |-> nodes, mapped |-> mapped]
  ELSE IF k = 0
    THEN [k |-> 0, fault |-> FALSE, nodes |-> nodes, mapped |-> mapped]
  ELSE IF Splits(nodes[k], size, phy, map_ok)
    THEN LET node == nodes[k]
             next == [addr  |-> node.addr + size + FRAME_SIZE,
                      state |-> "FREE",
                      start |-> node.addr + size + FRAME_SIZE * 2,
                      end   |-> node.end]
             node2 == [node EXCEPT !.end = next.addr - 1, !.state = "RESERVED"]
         IN [k |-> k,
             fault |-> Unmapped(nodes, mapped, {k + 1}),
             nodes |-> LinkAfter([nodes EXCEPT ![k] = node2], k, next),
             mapped |-> mapped \cup {next.addr}]
    ELSE [k |-> k, fault |-> FALSE,
          nodes |-> [nodes EXCEPT ![k].state = "RESERVED"],
          mapped |-> mapped]

\* the k-th node of the list, if pointer ptr is that of a node of the list
NodeOf(nodes, ptr) ==
  {k \in 1 .. Len(nodes) : nodes[k].addr = ptr - FRAME_SIZE}

\* heap.c 143-190 for the k-th node of the list
_heap_free(nodes, mapped, k) ==
  LET node == nodes[k]
      hasNext == k < Len(nodes)
      hasPrev == k > 1
      mergeNext == hasNext /\ nodes[k + 1].state = "FREE"
      mergePrev == hasPrev /\ nodes[k - 1].state = "FREE"
      freed == [node EXCEPT !.state = "FREE",
                            !.end = IF mergeNext THEN nodes[k + 1].end ELSE @]
      nodes1 == IF mergeNext
                  THEN Unlink([nodes EXCEPT ![k] = freed], k + 1)
                  ELSE [nodes EXCEPT ![k] = freed]
      mapped1 == IF mergeNext THEN mapped \ {nodes[k + 1].addr} ELSE mapped
      nodes2 == IF mergePrev
                  THEN Unlink([nodes1 EXCEPT ![k - 1].end = freed.end], k)
                  ELSE nodes1
      \* heap.c 188 unmaps next, the node after the freed one at line 160,
      \* not the freed node
      mapped2 == IF mergePrev /\ hasNext
                   THEN mapped1 \ {nodes[k + 1].addr} ELSE mapped1
      touched == {k, k - 1, k + 1}
                 \cup (IF mergeNext THEN {k + 2} ELSE {})
  IN [fault |-> Unmapped(nodes, mapped, touched),
      nodes |-> nodes2, mapped |-> mapped2,
      events |->
        (IF node.state = "ALLOCATED"
           THEN << Ev("range_free", node.start, node.end - node.start + 1, 0) >>
           ELSE <<>>)
        \o (IF mergeNext
              THEN << Ev("vmm_unmap", nodes[k + 1].addr, 0, 0) >> ELSE <<>>)
        \o (IF mergePrev
              THEN << Ev("vmm_unmap",
                         IF hasNext THEN nodes[k + 1].addr ELSE NullPtr, 0, 0) >>
              ELSE <<>>)]

\* heap.c 192-214.  range_ok is range_alloc's answer
_heap_alloc(size, phy_alloc, phy, map_ok, range_ok) ==
  LET aligned == PAGE_ALIGN(size)
      f == find_node(heap, heap_mapped, aligned, phy, map_ok)
      none == [ret |-> NullPtr, fault |-> f.fault, nodes |-> heap,
               mapped |-> heap_mapped, events |-> <<>>]
  IN
  IF f.fault \/ f.k = 0 THEN none
  ELSE LET node == f.nodes[f.k]
           ptr == node.addr + FRAME_SIZE
       IN
       IF ~phy_alloc
         THEN [ret |-> ptr, fault |-> FALSE, nodes |-> f.nodes,
               mapped |-> f.mapped, events |-> <<>>]
       ELSE LET allocated == [f.nodes EXCEPT ![f.k].state = "ALLOCATED"]
                tried == << Ev("range_alloc", node.start, aligned,
                               IF range_ok THEN 1 ELSE 0) >>
            IN IF range_ok
                 THEN [ret |-> ptr, fault |-> FALSE, nodes |-> allocated,
                       mapped |-> f.mapped, events |-> tried]
                 ELSE LET r == _heap_free(allocated, f.mapped, f.k)
                      IN [ret |-> ptr, fault |-> r.fault, nodes |-> r.nodes,
                          mapped |-> r.mapped, events |-> tried \o r.events]

\* heap.c 216-222
heap_reserve ==
  \E size \in SizeSample, phy \in BOOLEAN, map_ok \in BOOLEAN :
    \E r \in { _heap_alloc(size, FALSE, phy, map_ok, TRUE) } :
      /\ ~panicked
      /\ Len(heap_live) < MaxLive
      /\ panicked' = r.fault
      /\ heap' = IF r.fault THEN heap ELSE r.nodes
      /\ heap_mapped' = IF r.fault THEN heap_mapped ELSE r.mapped
      /\ heap_live' = IF r.fault \/ r.ret = NullPtr
                        THEN heap_live
                        ELSE Append(heap_live,
                                    [ptr |-> r.ret, size |-> PAGE_ALIGN(size)])
      /\ heap_last' = [NoHeapCall EXCEPT !.op = "heap_reserve", !.size = size,
                                         !.ret = IF r.fault THEN NullPtr
                                                            ELSE r.ret,
                                         !.fault = r.fault,
                                         !.events = r.events]
      /\ UNCHANGED <<smp_mode, ioapic_list, route_vars, ic_vars, mp_vars>>

\* heap.c 224-230
heap_alloc ==
  \E size \in SizeSample, phy \in BOOLEAN, map_ok \in BOOLEAN,
     range_ok \in BOOLEAN :
    \E r \in { _heap_alloc(size, TRUE, phy, map_ok, range_ok) } :
      /\ ~panicked
      /\ Len(heap_live) < MaxLive
      /\ panicked' = r.fault
      /\ heap' = IF r.fault THEN heap ELSE r.nodes
      /\ heap_mapped' = IF r.fault THEN heap_mapped ELSE r.mapped
      /\ heap_live' = IF r.fault \/ r.ret = NullPtr
                        THEN heap_live
                        ELSE Append(heap_live,
                                    [ptr |-> r.ret, size |-> PAGE_ALIGN(size)])
      /\ heap_last' = [NoHeapCall EXCEPT !.op = "heap_alloc", !.size = size,
                                         !.ret = IF r.fault THEN NullPtr
                                                            ELSE r.ret,
                                         !.fault = r.fault,
                                         !.events = r.events]
      /\ UNCHANGED <<smp_mode, ioapic_list, route_vars, ic_vars, mp_vars>>

\* heap.c 232-237, called with a pointer held whose node is in the list and
\* is not free
heap_free ==
  \E i \in 1 .. Len(heap_live) :
    \E k \in NodeOf(heap, heap_live[i].ptr) :
      \E r \in { _heap_free(heap, heap_mapped, k) } :
        /\ ~panicked
        /\ heap[k].state # "FREE"
        /\ panicked' = r.fault
        /\ heap' = IF r.fault THEN heap ELSE r.nodes
        /\ heap_mapped' = IF r.fault THEN heap_mapped ELSE r.mapped
        /\ heap_live' = IF r.fault THEN heap_live ELSE Unlink(heap_live, i)
        /\ heap_last' = [NoHeapCall EXCEPT !.op = "heap_free",
                                           !.ptr = heap_live[i].ptr,
                                           !.fault = r.fault,
                                           !.events = r.events]
        /\ UNCHANGED <<smp_mode, ioapic_list, route_vars, ic_vars, mp_vars>>

(***************************************************************************)
(* The system after boot, and its specifications.                          *)
(***************************************************************************)
\* an I/O APIC's redirection entries after reset: all masked
ResetRedir(list) ==
  [k \in 1 .. Len(list) |->
     [irq \in list[k].irq_base .. (list[k].irq_base + list[k].irqs - 1) |->
        [vector |-> 0, attr |-> 0, masked |-> TRUE]]]

Init ==
  /\ smp_mode \in {"UP", "SMP"}
  /\ ioapic_list \in (IF smp_mode = "UP" THEN {<<>>} ELSE Registries)
  /\ intr_handlers = [v \in Tracked |-> <<>>]
  /\ pic_masked = [i \in 0 .. (PIC_LINES - 1) |-> TRUE]
  /\ ioapic_redir = ResetRedir(ioapic_list)
  /\ panicked = FALSE
  /\ last = NoCall
  /\ ic_type = "NONE"
  /\ ic_last = NoIcCall
  /\ rw = [writer |-> 0, readers |-> {}]
  /\ cpu = [c \in Cpus |-> IdleCpu]
  /\ heap = << heap_root >>
  /\ heap_mapped = {heap_start}
  /\ heap_live = <<>>
  /\ heap_last = NoHeapCall

\* handlers routed by vector, and interrupts dispatched
Next ==
  \/ intr_dispatch
  \/ intr_route_intr
  \/ intr_unroute_intr

Spec == Init /\ [][Next]_vars

\* handlers routed by IRQ tuple
NextIrq ==
  \/ intr_route_irq
  \/ intr_unroute_irq

SpecIrq == Init /\ [][NextIrq]_vars

\* the calls of ic.c
NextIc ==
  \/ ic_bsp_init
  \/ ic_ap_init
  \/ ic_ack
  \/ ic_ipi_init
  \/ ic_ipi_startup

SpecIc == Init /\ [][NextIc]_vars

\* the controller chosen, handlers routed by vector, interrupts dispatched
NextTop ==
  \/ ic_bsp_init
  \/ intr_dispatch
  \/ intr_route_intr

SpecTop == Init /\ [][NextTop]_vars

\* a step of a call in progress on CPU c whose handlers return
Progress(c) ==
  \/ dispatch_call(c)
  \/ dispatch_runlock(c)
  \/ mutation_wunlock(c)
  \/ mutation_intr_unlock(c)

\* the calls of route.c on several CPUs, handlers calling mutations included
NextConc ==
  \E c \in Cpus :
    \/ dispatch_enter(c)
    \/ dispatch_rlock(c)
    \/ dispatch_call_mutation(c)
    \/ vector_call_enter(c)
    \/ irq_call_enter(c)
    \/ mutation_wlock(c)
    \/ Progress(c)

SpecConc == Init /\ [][NextConc]_vars

\* dispatches and the two vector mutations, with handlers that return and
\* call no mutation
NextLive ==
  \E c \in Cpus :
    \/ dispatch_enter(c)
    \/ dispatch_rlock(c)
    \/ vector_call_enter(c)
    \/ mutation_wlock(c)
    \/ Progress(c)

\* a CPU goes on with the call it is in, and a lock that is free again and
\* again is in the end given to the CPU spinning on it
Fairness ==
  \A c \in Cpus :
    /\ WF_vars(Progress(c))
    /\ SF_vars(dispatch_rlock(c))
    /\ SF_vars(mutation_wlock(c))

\* no call of NextLive reads the I/O APIC list
InitLive == Init /\ ioapic_list = <<>>

SpecLive == InitLive /\ [][NextLive]_vars /\ Fairness

\* the calls of heap.c
NextHeap ==
  \/ heap_alloc
  \/ heap_reserve
  \/ heap_free

\* no call of heap.c reads the mode or the I/O APIC list
InitHeap == Init /\ smp_mode = "UP"

SpecHeap == InitHeap /\ [][NextHeap]_vars

(***************************************************************************)
(* Properties of the calls.                                                *)
(***************************************************************************)
Range(seq) == {seq[i] : i \in 1 .. Len(seq)}

\* the positions of a call's trace at which the primitive `kind` was called
Calls(events, kind) == {i \in 1 .. Len(events) : events[i][1] = kind}

\* the handler invocations of a trace, in the order they were made
Invocations(events) == SelectSeq(events, LAMBDA e : e[1] = "handler")

\* the IRQ lies in the range [base, base + count) of the I/O APIC
InRange(apic, irq) == apic.irq_base <= irq /\ irq < apic.irq_base + apic.irqs

Owners(irq) == {k \in 1 .. Len(ioapic_list) : InRange(ioapic_list[k], irq)}

\* list without its first entry equal to x (list itself if there is none)
WithoutFirst(list, x) ==
  IF x \notin Range(list) THEN list
  ELSE LET i == CHOOSE k \in 1 .. Len(list) :
                  list[k] = x /\ \A j \in 1 .. (k - 1) : list[j] # x
       IN  [k \in 1 .. (Len(list) - 1) |-> IF k < i THEN list[k] ELSE list[k + 1]]

\* C1: a dispatch of a vector whose chain is empty panics exactly once and
\* calls no handler.
C1_EmptyChainIsFatal ==
  (last.op = "intr_dispatch" /\ last.pre = <<>>) =>
    /\ panicked
    /\ Cardinality(Calls(last.events, "panic")) = 1
    /\ Calls(last.events, "handler") = {}

C1_Witness ==
  /\ last.op = "intr_dispatch" /\ last.pre = <<>>
  /\ last.intr = IRQ0 + 1 /\ panicked

\* C2: a dispatch of a vector whose chain is not empty calls the handler of
\* every entry exactly once, in chain order, each with the same interrupt
\* state; a handler that is on the chain twice is called twice.
C2_DispatchCallsChainInOrder ==
  (last.op = "intr_dispatch" /\ last.pre # <<>>) =>
    /\ Invocations(last.events) =
         [i \in 1 .. Len(last.pre) |->
            <<"handler", last.pre[i], last.intr, last.frame>>]
    /\ ~panicked

C2_Witness ==
  /\ last.op = "intr_dispatch" /\ last.pre = <<2, 1, 2>>
  /\ Cardinality({i \in Calls(last.events, "handler") :
                    last.events[i][2] = 2}) = 2

\* C3: intr_route_intr(v, h) with a node allocated appends h at the tail of
\* v's chain, returns true and changes no other chain; with no node it
\* returns false and changes nothing; it returns false in no other case.
C3_RouteVector ==
  [][ last'.op = "intr_route_intr" =>
        IF last'.alloc
          THEN /\ last'.ret = "true"
               /\ intr_handlers' =
                    [intr_handlers EXCEPT
                       ![last'.intr] = Append(@, last'.handler)]
          ELSE /\ last'.ret = "false"
               /\ intr_handlers' = intr_handlers ]_vars

C3_Witness ==
  /\ last.op = "intr_route_intr" /\ last.ret = "true"
  /\ last.pre = <<1, 2>> /\ last.handler = 1
  /\ intr_handlers[last.intr] = <<1, 2, 1>>

\* C4: intr_unroute_intr(v, h) removes exactly the first entry of v's chain
\* whose handler is h, keeps the order of the others and changes no other
\* chain; if h is not on v's chain the table is unchanged.
C4_UnrouteVector ==
  [][ last'.op = "intr_unroute_intr" =>
        LET v == last'.intr
            h == last'.handler
            c == intr_handlers[v]
        IN  IF h \in Range(c)
              THEN \E i \in 1 .. Len(c) :
                     /\ c[i] = h
                     /\ \A j \in 1 .. (i - 1) : c[j] # h
                     /\ intr_handlers' =
                          [intr_handlers EXCEPT
                             ![v] = [k \in 1 .. (Len(c) - 1) |->
                                       IF k < i THEN c[k] ELSE c[k + 1]]]
              ELSE intr_handlers' = intr_handlers ]_vars

C4_Witness ==
  /\ last.op = "intr_unroute_intr" /\ last.handler = 1
  /\ last.pre = <<1, 2, 1>>
  /\ intr_handlers[last.intr] = <<2, 1>>

\* a successful intr_route_intr(v, h) is followed by intr_unroute_intr(v, h)
RouteThenUnroute ==
  /\ last.op = "intr_route_intr" /\ last.ret = "true"
  /\ last'.op = "intr_unroute_intr"
  /\ last'.intr = last.intr /\ last'.handler = last.handler

\* C5 as claimed: a successful intr_route_intr(v, h) followed by
\* intr_unroute_intr(v, h) returns v's chain to what it was before the two
\* calls, whatever was on it.
C5_RoundTripAlways ==
  [][ RouteThenUnroute => intr_handlers'[last.intr] = last.pre ]_vars

\* no entry other than h comes after an entry h
OnlyAtTail(list, h) ==
  \A i, j \in 1 .. Len(list) : (i < j /\ list[i] = h) => list[j] = h

\* C5 as amended: the two calls return v's chain to what it was before when
\* no other handler followed an entry of h on it (so whenever h was not on
\* it); otherwise they leave the same entries with the first entry of h
\* moved to the tail.
C5_RoundTrip ==
  [][ RouteThenUnroute =>
        /\ OnlyAtTail(last.pre, last.handler) =>
             intr_handlers'[last.intr] = last.pre
        /\ intr_handlers'[last.intr] =
             IF last.handler \in Range(last.pre)
               THEN Append(WithoutFirst(last.pre, last.handler), last.handler)
               ELSE last.pre
        /\ \A v \in Tracked \ {last.intr} :
             intr_handlers'[v] = intr_handlers[v] ]_vars

C5_Witness ==
  /\ last.op = "intr_unroute_intr"
  /\ last.rt = << <<2, 1>> >> /\ last.handler = 1
  /\ intr_handlers[last.intr] = <<2, 1>>

\* the IRQ of a tuple cannot be resolved: it is no PIC line in UP mode, it
\* is in no registered I/O APIC's range in SMP mode
Unresolvable(irq) ==
  IF smp_mode = "UP" THEN irq >= PIC_LINES ELSE Owners(irq) = {}

\* C6: intr_route_irq of a tuple whose IRQ cannot be resolved returns false
\* and changes no chain, no PIC mask bit and no I/O APIC entry.
C6_UnresolvedIrqFails ==
  [][ (last'.op = "intr_route_irq" /\ Unresolvable(last'.irq)) =>
        /\ last'.ret = "false"
        /\ intr_handlers' = intr_handlers
        /\ pic_masked' = pic_masked
        /\ ioapic_redir' = ioapic_redir ]_vars

C6_Witness ==
  /\ last.op = "intr_route_irq" /\ last.ret = "false" /\ last.alloc
  /\ \/ smp_mode = "UP" /\ last.irq = 16
     \/ smp_mode = "SMP" /\ ioapic_list # <<>> /\ last.irq = 16
  /\ Unresolvable(last.irq)

\* C7 as claimed: in SMP mode intr_route_irq of an IRQ in the range
\* [base, base + count) of a registered I/O APIC, with a node allocated,
\* appends the handler to the chain of vector (IRQ mod IRQS) + IRQ0, programs
\* that I/O APIC with the tuple and the vector, and returns true.
C7_OwnedIrqIsRouted ==
  [][ ( /\ last'.op = "intr_route_irq" /\ smp_mode = "SMP"
        /\ last'.alloc /\ Owners(last'.irq) # {} ) =>
        LET intr == (last'.irq % IRQS) + IRQ0 IN
          /\ last'.ret = "true"
          /\ intr_handlers' =
               [intr_handlers EXCEPT ![intr] = Append(@, last'.handler)]
          /\ \E k \in Owners(last'.irq) :
               ioapic_redir'[k][last'.irq] =
                 [vector |-> intr, attr |-> last'.attr, masked |-> FALSE]
     ]_vars

\* C8 as claimed: in UP mode intr_route_irq of an IRQ below 16 whose node
\* allocation fails returns false and leaves the PIC's mask bits as they
\* were; a line is unmasked only by a call that appended the handler.
C8_UnmaskOnlyOnSuccess ==
  [][ ( /\ last'.op = "intr_route_irq" /\ smp_mode = "UP"
        /\ last'.irq < PIC_LINES /\ ~last'.alloc ) =>
        /\ last'.ret = "false"
        /\ pic_masked' = pic_masked ]_vars

\* the chain of a vector (empty for a vector no call of the model names)
Chain(v) == IF v \in DOMAIN intr_handlers THEN intr_handlers[v] ELSE <<>>

\* PIC line i is unmasked exactly when the chain of vector IRQ0 + i is used
PicFollowsChains ==
  \A i \in 0 .. (PIC_LINES - 1) : (~pic_masked[i]) <=> (Chain(IRQ0 + i) # <<>>)

\* a call of intr_route_irq or intr_unroute_irq for a PIC line, in UP mode,
\* whose allocation (if it makes one) succeeds
PicCallThatSucceeds ==
  /\ smp_mode = "UP"
  /\ last'.op \in {"intr_route_irq", "intr_unroute_irq"}
  /\ last'.irq < PIC_LINES
  /\ last'.op = "intr_route_irq" => last'.alloc

\* C9: in UP mode, from all lines masked and all chains empty, the calls of
\* intr_route_irq and intr_unroute_irq for PIC lines whose allocations
\* succeed keep line i unmasked exactly when the chain of IRQ0 + i is not
\* empty; intr_unroute_irq masks a line only when its chain has become
\* empty; routing a handler onto an empty chain and unrouting it leaves the
\* line masked and the chain empty.
C9_PicMaskFollowsChain ==
  /\ (Init => PicFollowsChains)
  /\ [][ (PicFollowsChains /\ PicCallThatSucceeds) =>
           /\ PicFollowsChains'
           /\ \A i \in 0 .. (PIC_LINES - 1) :
                ( /\ last'.op = "intr_unroute_irq"
                  /\ ~pic_masked[i] /\ pic_masked'[i] ) =>
                  (i = last'.irq /\ Chain(IRQ0 + i)' = <<>>)
           /\ ( /\ last.op = "intr_route_irq" /\ last.ret = "true"
                /\ last.pre = <<>>
                /\ last'.op = "intr_unroute_irq"
                /\ last'.irq = last.irq /\ last'.attr = last.attr
                /\ last'.handler = last.handler ) =>
                (pic_masked'[last.irq] /\ Chain(IRQ0 + last.irq)' = <<>>)
     ]_vars

C9_Witness ==
  /\ smp_mode = "UP" /\ last.op = "intr_unroute_irq" /\ last.irq = 15
  /\ last.rt = << <<>> >>
  /\ pic_masked[15] /\ intr_handlers[IRQ15] = <<>>
  /\ ~pic_masked[1] /\ intr_handlers[IRQ0 + 1] # <<>>

\* C10 as claimed: in SMP mode intr_unroute_irq of an IRQ in the range of a
\* registered I/O APIC masks that I/O APIC's entry, before the handler is
\* unlinked and whether or not handlers remain on the chain;
\* intr_route_irq links the handler before it programs the I/O APIC.
C10_MaskBeforeUnlink ==
  [][ /\ ( /\ last'.op = "intr_unroute_irq" /\ smp_mode = "SMP"
           /\ Owners(last'.irq) # {} ) =>
           \A k \in Owners(last'.irq) :
             /\ ioapic_redir'[k][last'.irq].masked
             /\ \E i \in Calls(last'.events, "ioapic_mask") :
                  /\ last'.events[i] = <<"ioapic_mask", k, last'.irq, 0>>
                  /\ \A j \in Calls(last'.events, "list_remove") : i < j
      /\ ( /\ last'.op = "intr_route_irq" /\ smp_mode = "SMP"
           /\ last'.ret = "true" ) =>
           \A i \in Calls(last'.events, "list_add_tail"),
              j \in Calls(last'.events, "ioapic_route") : i < j
     ]_vars

\* C11 as claimed: in SMP mode intr_unroute_irq of an IRQ in no registered
\* I/O APIC's range changes no chain and no I/O APIC entry.
C11_UnownedUnrouteIsNoOp ==
  [][ ( /\ last'.op = "intr_unroute_irq" /\ smp_mode = "SMP"
        /\ Owners(last'.irq) = {} ) =>
        /\ intr_handlers' = intr_handlers
        /\ ioapic_redir' = ioapic_redir ]_vars

\* the calls a trace makes to a controller backend of ic.c
BackendCalls(events) ==
  {i \in 1 .. Len(events) : events[i][1] # "panic"}

IpiOps == {"ic_ipi_init", "ic_ipi_startup"}

\* the IPI a call is to send: INIT (0x05) or startup (0x06) with its page
IpiOf(call) ==
  IF call.op = "ic_ipi_init" THEN <<call.id, 5, 0>> ELSE <<call.id, 6, call.arg>>

\* C14: ic_ap_init, ic_ack, ic_ipi_init and ic_ipi_startup called with no
\* controller type set panic and reach no backend; the two IPI calls also
\* panic under the PIC, and send the IPI through the backend of the type in
\* use exactly under the local APIC and the x2APIC.
C14_UninitializedIsFatal ==
  /\ ( /\ ic_last.op \in {"ic_ap_init", "ic_ack"} \cup IpiOps
       /\ ic_last.was = "NONE" ) =>
       /\ panicked /\ ic_last.ret = "panic"
       /\ BackendCalls(ic_last.events) = {}
  /\ (ic_last.op \in IpiOps /\ ic_last.was = "PIC") =>
       /\ panicked /\ ic_last.ret = "panic"
       /\ BackendCalls(ic_last.events) = {}
  /\ (ic_last.op \in IpiOps /\ ic_last.was = "LAPIC") =>
       /\ ic_last.events = << <<"lapic_ipi">> \o IpiOf(ic_last) >>
       /\ ~panicked
  /\ (ic_last.op \in IpiOps /\ ic_last.was = "LX2APIC") =>
       /\ ic_last.events = << <<"lx2apic_ipi">> \o IpiOf(ic_last) >>
       /\ ~panicked

C14_Witness ==
  /\ ic_last.op = "ic_ipi_startup" /\ ic_last.was = "PIC"
  /\ ic_last.id = 2 /\ panicked

\* C15: ic_type changes only in an ic_bsp_init called with PIC, LAPIC or
\* LX2APIC, and then to the type passed; ic_bsp_init with any other type
\* panics and leaves it; no other call changes it, and it never goes back to
\* NONE.
C15_TypeSetOnlyByBspInit ==
  [][ /\ ic_type' # ic_type =>
           /\ ic_last'.op = "ic_bsp_init"
           /\ ic_last'.type \in IcTypes
           /\ ic_type' = ic_last'.type
      /\ (ic_last' # ic_last /\ ic_last'.op = "ic_bsp_init") =>
           IF ic_last'.type \in IcTypes
             THEN ic_type' = ic_last'.type /\ ~panicked'
             ELSE ic_type' = ic_type /\ panicked' /\ ic_last'.ret = "panic"
      /\ (ic_last' # ic_last /\ ic_last'.op # "ic_bsp_init") =>
           ic_type' = ic_type
      /\ ic_type # "NONE" => ic_type' # "NONE" ]_vars

C15_Witness ==
  /\ ic_last.op = "ic_bsp_init" /\ ic_last.was = "NONE"
  /\ ic_last.type = "LAPIC" /\ ic_type = "LAPIC" /\ ~panicked

\* the vectors ic_ack forwards under a controller type
AckRange(type) == IF type = "PIC" THEN IRQ0 .. IRQ15 ELSE IRQ0 .. IRQ23

AckBackend(type) ==
  CASE type = "PIC" -> "pic_ack" [] type = "LAPIC" -> "lapic_ack"
    [] OTHER -> "lx2apic_ack"

\* C16: with a controller type set, ic_ack(id) calls the backend of that
\* type, once, exactly when id is in IRQ0..IRQ15 under the PIC or in
\* IRQ0..IRQ23 under the local APIC or the x2APIC; for any other id it calls
\* no backend; it never panics.
C16_AckForwardsInRange ==
  (ic_last.op = "ic_ack" /\ ic_last.was # "NONE") =>
    /\ ic_last.ret = "void"
    /\ Calls(ic_last.events, "panic") = {}
    /\ IF ic_last.id \in AckRange(ic_last.was)
         THEN /\ Len(ic_last.events) = 1
              /\ ic_last.events[1][1] = AckBackend(ic_last.was)
         ELSE ic_last.events = <<>>

C16_Witness ==
  /\ ic_last.op = "ic_ack" /\ ic_last.was = "PIC"
  /\ ic_last.id = IRQ15 + 1 /\ ic_last.events = <<>> /\ ~panicked

\* the acknowledgments of a trace of intr_dispatch
DispatchAcks(events) == Calls(events, "apic_ack") \cup Calls(events, "pic_ack")

\* C17: intr_dispatch acknowledges at most once, before rw_rlock and before
\* any handler: in SMP mode the APIC, exactly when the vector is above
\* FAULT31 and is not SPURIOUS; in UP mode the PIC, exactly when the vector
\* is in IRQ0..IRQ15, and then line (vector - IRQ0).
C17_AckOnceBeforeLock ==
  last.op = "intr_dispatch" =>
    /\ Cardinality(DispatchAcks(last.events)) <= 1
    /\ \A i \in DispatchAcks(last.events) :
         \A j \in Calls(last.events, "rw_rlock") \cup Calls(last.events, "handler") :
           i < j
    /\ smp_mode = "SMP" =>
         /\ Calls(last.events, "pic_ack") = {}
         /\ Calls(last.events, "apic_ack") # {} <=>
              (last.intr > FAULT31 /\ last.intr # SPURIOUS)
    /\ smp_mode = "UP" =>
         /\ Calls(last.events, "apic_ack") = {}
         /\ Calls(last.events, "pic_ack") # {} <=> last.intr \in IRQ0 .. IRQ15
         /\ \A i \in Calls(last.events, "pic_ack") :
              last.events[i] = <<"pic_ack", last.intr - IRQ0, 0, 0>>

C17_Witness ==
  /\ last.op = "intr_dispatch" /\ smp_mode = "UP" /\ last.intr = IRQ0 + 1
  /\ last.events[1] = <<"pic_ack", 1, 0, 0>>
  /\ Calls(last.events, "handler") # {}

\* a step that is a call of intr_dispatch
DispatchStep ==
  /\ last'.op = "intr_dispatch"
  /\ ic_last' = ic_last
  /\ vars' # vars

\* C19 as claimed: intr_dispatch acknowledges the PIC only when ic_type is
\* PIC and the APIC only when ic_type is LAPIC or LX2APIC, and with ic_type
\* NONE a dispatch of a vector in IRQ0..IRQ15 panics at the acknowledgment,
\* before rw_rlock.
C19_AckByControllerInUse ==
  [][ DispatchStep =>
        /\ Calls(last'.events, "pic_ack") # {} => ic_type = "PIC"
        /\ Calls(last'.events, "apic_ack") # {} => ic_type \in {"LAPIC", "LX2APIC"}
        /\ (ic_type = "NONE" /\ last'.intr \in IRQ0 .. IRQ15) =>
             /\ panicked'
             /\ Calls(last'.events, "rw_rlock") = {}
             /\ DispatchAcks(last'.events) = {} ]_vars

\* CPU c is in the list walk of a dispatch, a handler's own call included
Walking(c) == cpu[c].pc = "walk" \/ (cpu[c].pc = "wlock" /\ cpu[c].nested)

\* CPU c is in the part of a mutation that reads and changes the table
Mutating(c) == cpu[c].pc = "wunlock"

\* C12: intr_route_lock is held by nobody, by dispatches only, or by one
\* mutation only; a CPU walking a chain holds it for read and a CPU changing
\* the table holds it for write, so no mutation overlaps a walk or another
\* mutation; a dispatch asking for the lock gets it whenever no mutation holds
\* it, whichever dispatches hold it; and the chain a dispatch walks is, all
\* through the walk, the chain as it was when the dispatch took the lock.
C12_ReadersOrOneWriter ==
  /\ rw.writer \in Cpus => rw.readers = {}
  /\ \A c \in Cpus :
       /\ Walking(c) => c \in rw.readers /\ rw.writer = 0
       /\ Mutating(c) => rw.writer = c
       /\ (Mutating(c) \/ Walking(c)) => \A d \in Cpus \ {c} : ~Mutating(d)
       /\ (c \in ActiveCpus /\ cpu[c].pc = "rlock" /\ rw.writer = 0 /\ ~panicked)
            => ENABLED dispatch_rlock(c)
       /\ Walking(c) =>
            /\ intr_handlers[cpu[c].intr] = cpu[c].snap
            /\ Len(cpu[c].walked) <= Len(cpu[c].snap)
            /\ cpu[c].walked = SubSeq(cpu[c].snap, 1, Len(cpu[c].walked))

C12_Witness ==
  /\ cpu[1].pc = "walk" /\ cpu[2].pc = "walk"
  /\ cpu[1].intr = IRQ0 + 1 /\ cpu[2].intr = IRQ15
  /\ rw.readers = {1, 2}
  /\ cpu[1].walked = <<1, 2>>

\* CPU c is in a call of intr_route_intr or intr_unroute_intr
InMutation(c) == cpu[c].pc \in {"wlock", "wunlock", "intr_unlock"}

\* CPU c is in a dispatch while another CPU is in a mutation
DispatchBesideMutation(c) ==
  /\ cpu[c].pc \in {"rlock", "walk"}
  /\ \E d \in Cpus \ {c} : InMutation(d)

\* C13 as claimed: with handlers that return and call no mutation, a call of
\* intr_route_intr or intr_unroute_intr returns in the end, and so does a
\* dispatch that another CPU makes meanwhile.
C13_EveryCallReturns ==
  \A c \in Cpus :
    /\ InMutation(c) ~> (cpu[c].pc = "idle")
    /\ DispatchBesideMutation(c) ~> (cpu[c].pc = "idle")

\* C13: with handlers that return and call no mutation, a call of
\* intr_route_intr or intr_unroute_intr returns in the end, and so does a
\* dispatch that another CPU makes meanwhile, unless a dispatch finds the
\* chain of its vector empty and panics.
C13_EveryCallReturnsOrPanics ==
  \A c \in Cpus :
    /\ InMutation(c) ~> (cpu[c].pc = "idle" \/ panicked)
    /\ DispatchBesideMutation(c) ~> (cpu[c].pc = "idle" \/ panicked)

C13_Witness ==
  /\ cpu[1].pc = "wunlock" /\ cpu[1].call.op = "intr_unroute_intr"
  /\ cpu[2].pc = "rlock" /\ rw.writer = 1 /\ ~panicked

\* C18: a CPU that waits for the write lock or holds it has its interrupts
\* disabled, whichever of the four mutations it is in and whether or not the
\* call succeeds; a CPU that has released it and is to enable its interrupts
\* no longer holds it; a CPU that is in no call holds no write lock and has
\* its interrupts enabled.
C18_InterruptsOffAroundWriteLock ==
  \A c \in Cpus :
    /\ cpu[c].pc \in {"wlock", "wunlock"} => cpu[c].off
    /\ rw.writer = c => cpu[c].off
    /\ cpu[c].pc = "intr_unlock" => rw.writer # c
    /\ cpu[c].pc = "idle" => (~cpu[c].off /\ rw.writer # c)

C18_Witness ==
  /\ cpu[1].pc = "intr_unlock" /\ cpu[1].call.op = "intr_route_irq"
  /\ cpu[1].ret = "false" /\ cpu[1].off /\ rw.writer = 0

\* C20: a CPU whose handler has called a mutation holds the read lock and
\* waits for the write lock, and stays so: neither the mutation nor the
\* dispatch goes on.
C20_NestedMutationDeadlocks ==
  [][ \A c \in Cpus :
        cpu[c].nested =>
          /\ cpu[c].pc = "wlock" /\ c \in rw.readers
          /\ ~ENABLED mutation_wlock(c)
          /\ cpu'[c] = cpu[c] /\ c \in rw'.readers ]_vars

C20_Witness ==
  /\ cpu[2].nested /\ cpu[2].pc = "wlock" /\ 2 \in rw.readers
  /\ cpu[2].call.op = "intr_unroute_intr" /\ cpu[2].call.intr = cpu[2].intr
  /\ cpu[1].pc = "idle"

\* the node of the list a held pointer is the pointer of
LiveNode(ptr) == {k \in 1 .. Len(heap) : heap[k].start = ptr}

\* two pointers held whose blocks, of the sizes allocated, share an address
Overlap(a, b) ==
  /\ a.ptr <= b.ptr + b.size - 1
  /\ b.ptr <= a.ptr + a.size - 1

\* C21 as claimed: every pointer returned non-null and not yet freed is the
\* pointer of a heap node that is not FREE, no two such pointers have blocks
\* that overlap, and a heap_alloc whose range_alloc fails returns null.
C21_LivePointersAreAllocated ==
  /\ \A i \in 1 .. Len(heap_live) :
       \E k \in LiveNode(heap_live[i].ptr) : heap[k].state # "FREE"
  /\ \A i, j \in 1 .. Len(heap_live) :
       i # j => ~Overlap(heap_live[i], heap_live[j])
  /\ ( /\ heap_last.op = "heap_alloc"
       /\ \E e \in Range(heap_last.events) : e[1] = "range_alloc" /\ e[4] = 0 )
       => heap_last.ret = NullPtr


====
